---- MODULE Spec2Model ----
(***************************************************************************)
(* Model of package filters (src/filters/filter.go): the filter            *)
(* constructors True, False, Or, And, Not, Whitelist, Blacklist, Command   *)
(* and Commands, and Filter.Check.                                         *)
(*                                                                         *)
(* A Go string is a sequence of one-character strings.  A []string is a    *)
(* reference (an index into `slices`, the backing arrays in memory), so    *)
(* that two holders of the same slice see each other's writes.  A filter   *)
(* is the record of its closure's captured variables.                      *)
(***************************************************************************)
EXTENDS Integers, Sequences, FiniteSets, TLC

VARIABLES
    slices,   \* memory: the backing arrays of the []string values in use
    filters,  \* the filters constructed so far, in construction order
    args,     \* args[i]: the constructor call that returned filters[i]
    call      \* the latest Filter.Check call and what it returned

vars == <<slices, filters, args, call>>

(***************************************************************************)
(* Bounds                                                                  *)
(***************************************************************************)
MaxTextLen == 4      \* longest text / caption / data / query of an update
MaxCmds == 2         \* longest command list passed to Commands
MaxId == 2           \* user ids are 0..MaxId
MaxIDs == 2          \* longest ID list passed to Whitelist / Blacklist
MaxFilters == 2      \* filters constructed in one run of Spec
MaxCombFilters == 3  \* filters constructed in one run of SpecComb
MaxArity == 2        \* longest filter list passed to And / Or

(***************************************************************************)
(* Strings                                                                 *)
(***************************************************************************)
Alphabet == {"/", "@", " ", "a", "A"}

Str(n) == UNION {[1..k -> Alphabet] : k \in 0..n}

\* unicode.ToLower on one character of the alphabet
LowerChar(c) == IF c = "A" THEN "a" ELSE c

ToLower(s) == [i \in DOMAIN s |-> LowerChar(s[i])]

HasPrefix(s, prefix) ==
    /\ Len(s) >= Len(prefix)
    /\ SubSeq(s, 1, Len(prefix)) = prefix

(***************************************************************************)
(* Updates.  An optional (pointer) field is <<>> when nil and <<v>> when   *)
(* it points to v.                                                         *)
(***************************************************************************)
User(id) == [Id |-> id]

NoUpdate ==
    [Message |-> <<>>, CallbackQuery |-> <<>>, InlineQuery |-> <<>>, Poll |-> <<>>]

MessageUpdate(text, caption, from) ==
    [NoUpdate EXCEPT !.Message = <<[Text |-> text, Caption |-> caption, From |-> from]>>]

CallbackUpdate(data, id) ==
    [NoUpdate EXCEPT !.CallbackQuery = <<[Data |-> data, From |-> User(id)]>>]

InlineUpdate(query, id) ==
    [NoUpdate EXCEPT !.InlineQuery = <<[Query |-> query, From |-> User(id)]>>]

PollUpdate == [NoUpdate EXCEPT !.Poll = <<[Id |-> <<"a">>]>>]

\* The populated payload of the update, tagged with its dynamic type.
ExtractUpdate(update) ==
    IF update.Message # <<>> THEN [type |-> "Message", data |-> update.Message[1]]
    ELSE IF update.CallbackQuery # <<>>
        THEN [type |-> "CallbackQuery", data |-> update.CallbackQuery[1]]
    ELSE IF update.InlineQuery # <<>>
        THEN [type |-> "InlineQuery", data |-> update.InlineQuery[1]]
    ELSE IF update.Poll # <<>> THEN [type |-> "Poll", data |-> update.Poll[1]]
    ELSE [type |-> "nil", data |-> <<>>]

(***************************************************************************)
(* Constructors: the closure each one returns                              *)
(***************************************************************************)
True == [kind |-> "True"]

False == [kind |-> "False"]

Or(fs) == [kind |-> "Or", filters |-> fs]

And(fs) == [kind |-> "And", filters |-> fs]

\* variant of Not: the filter itself
NotSame(filter) == filter

Not(filter) == [kind |-> "Not", filter |-> filter]

Whitelist(IDs) == [kind |-> "Whitelist", IDs |-> IDs]

Blacklist(IDs) == Not(Whitelist(IDs))

\* variant of NormalizeCmds: the prefix is added, the case is kept
NormalizeCmdsKeepCase(prefix, cmds) == [index \in DOMAIN cmds |-> prefix \o cmds[index]]

\* Commands, lines 140-142: what the loop leaves in the caller's slice
NormalizeCmds(prefix, cmds) == [index \in DOMAIN cmds |-> ToLower(prefix \o cmds[index])]

\* Commands, lines 144-146
NormalizeBotUsername(botUsername) ==
    IF ~HasPrefix(botUsername, <<"@">>) THEN <<"@">> \o botUsername ELSE botUsername

\* Commands, lines 148-164: the closure captures the slice cmds (a
\* reference) and the normalized botUsername
Commands(botUsername, cmds) ==
    [kind |-> "Commands", cmds |-> cmds, botUsername |-> NormalizeBotUsername(botUsername)]

(***************************************************************************)
(* Filter.Check                                                            *)
(***************************************************************************)
\* Whitelist, lines 120-126
RECURSIVE WhitelistLoop(_, _, _)
WhitelistLoop(IDs, senderID, i) ==
    IF i > Len(IDs) THEN FALSE
    ELSE IF IDs[i] = senderID THEN TRUE
    ELSE WhitelistLoop(IDs, senderID, i + 1)

\* Whitelist, lines 105-127
WhitelistCheck(IDs, update) ==
    LET p == ExtractUpdate(update) IN
    IF p.type = "Message"
        THEN WhitelistLoop(IDs, IF p.data.From # <<>> THEN p.data.From[1].Id ELSE 0, 1)
    ELSE IF p.type = "CallbackQuery"
        THEN WhitelistLoop(IDs, p.data.From.Id, 1)
    ELSE FALSE

\* variant of CommandMatches: any text that begins with the command
CommandMatchesAnyPrefix(text, cmd, botUsername) ==
    \/ text = cmd
    \/ text = cmd \o botUsername
    \/ HasPrefix(text, cmd)
    \/ HasPrefix(text, cmd \o botUsername \o <<" ">>)

\* Commands, line 156
CommandMatches(text, cmd, botUsername) ==
    \/ text = cmd
    \/ text = cmd \o botUsername
    \/ HasPrefix(text, cmd \o <<" ">>)
    \/ HasPrefix(text, cmd \o botUsername \o <<" ">>)

\* Commands, lines 155-159
RECURSIVE CommandsLoop(_, _, _, _)
CommandsLoop(cmds, botUsername, text, i) ==
    IF i > Len(cmds) THEN FALSE
    ELSE IF CommandMatches(text, cmds[i], botUsername) THEN TRUE
    ELSE CommandsLoop(cmds, botUsername, text, i + 1)

\* ExtractUpdateText: the text the update carries, whatever its kind
ExtractUpdateText(update) ==
    LET p == ExtractUpdate(update) IN
    IF p.type = "Message"
        THEN IF p.data.Text = <<>> THEN p.data.Caption ELSE p.data.Text
    ELSE IF p.type = "CallbackQuery" THEN p.data.Data
    ELSE IF p.type = "InlineQuery" THEN p.data.Query
    ELSE <<>>

\* variant of CommandsCheck: the update's kind is not tested
CommandsCheckAnyKind(cmds, botUsername, update) ==
    CommandsLoop(cmds, botUsername, ExtractUpdateText(update), 1)

\* variant of CommandsCheck: the incoming text is lower-cased too
CommandsCheckLowerText(cmds, botUsername, update) ==
    LET p == ExtractUpdate(update) IN
    IF p.type = "Message"
        THEN LET text == IF p.data.Text = <<>> THEN p.data.Caption ELSE p.data.Text
             IN  CommandsLoop(cmds, botUsername, ToLower(text), 1)
    ELSE FALSE

\* Commands, lines 148-164; cmds is the current content of the captured slice
CommandsCheck(cmds, botUsername, update) ==
    LET p == ExtractUpdate(update) IN
    IF p.type = "Message"
        THEN LET text == IF p.data.Text = <<>> THEN p.data.Caption ELSE p.data.Text
             IN  CommandsLoop(cmds, botUsername, text, 1)
    ELSE FALSE

RECURSIVE Check(_, _, _)
RECURSIVE OrLoop(_, _, _, _)
RECURSIVE AndLoop(_, _, _, _)

\* variant of OrLoop: no early return
RECURSIVE OrLoopAll(_, _, _, _)
OrLoopAll(mem, fs, update, i) ==
    IF i > Len(fs) THEN [result |-> FALSE, evaluated |-> <<>>]
    ELSE LET rest == OrLoopAll(mem, fs, update, i + 1)
         IN  [result |-> Check(mem, fs[i], update) \/ rest.result,
              evaluated |-> <<i>> \o rest.evaluated]

\* variant of AndLoop: no early return
RECURSIVE AndLoopAll(_, _, _, _)
AndLoopAll(mem, fs, update, i) ==
    IF i > Len(fs) THEN [result |-> TRUE, evaluated |-> <<>>]
    ELSE LET rest == AndLoopAll(mem, fs, update, i + 1)
         IN  [result |-> Check(mem, fs[i], update) /\ rest.result,
              evaluated |-> <<i>> \o rest.evaluated]

\* Or, lines 32-38: the result and the positions of the filters it called
OrLoop(mem, fs, update, i) ==
    IF i > Len(fs) THEN [result |-> FALSE, evaluated |-> <<>>]
    ELSE IF Check(mem, fs[i], update) THEN [result |-> TRUE, evaluated |-> <<i>>]
    ELSE LET rest == OrLoop(mem, fs, update, i + 1)
         IN  [result |-> rest.result, evaluated |-> <<i>> \o rest.evaluated]

\* And, lines 45-51
AndLoop(mem, fs, update, i) ==
    IF i > Len(fs) THEN [result |-> TRUE, evaluated |-> <<>>]
    ELSE IF ~Check(mem, fs[i], update) THEN [result |-> FALSE, evaluated |-> <<i>>]
    ELSE LET rest == AndLoop(mem, fs, update, i + 1)
         IN  [result |-> rest.result, evaluated |-> <<i>> \o rest.evaluated]

\* Filter.Check, line 14: runs the closure against memory mem
Check(mem, f, update) ==
    CASE f.kind = "True" -> TRUE
      [] f.kind = "False" -> FALSE
      [] f.kind = "Or" -> OrLoop(mem, f.filters, update, 1).result
      [] f.kind = "And" -> AndLoop(mem, f.filters, update, 1).result
      [] f.kind = "Not" -> ~Check(mem, f.filter, update)
      [] f.kind = "Whitelist" -> WhitelistCheck(f.IDs, update)
      [] f.kind = "Commands" -> CommandsCheck(mem[f.cmds], f.botUsername, update)

\* the positions of the filters that f's closure itself called, in call order
Evaluated(mem, f, update) ==
    CASE f.kind = "Or" -> OrLoop(mem, f.filters, update, 1).evaluated
      [] f.kind = "And" -> AndLoop(mem, f.filters, update, 1).evaluated
      [] f.kind = "Not" -> <<1>>
      [] OTHER -> <<>>

(***************************************************************************)
(* Constructor calls.  Each appends the returned filter to `filters` and   *)
(* the call's arguments (as passed) to `args`.                             *)
(***************************************************************************)
NoArgs ==
    [name |-> "", prefix |-> <<>>, botUsername |-> <<>>, cmds |-> <<>>, slice |-> 0,
     IDs |-> <<>>, filters |-> <<>>]

NoCall == [filter |-> 0, update |-> NoUpdate, result |-> FALSE, evaluated |-> <<>>]

Returned(f, a) ==
    /\ filters' = Append(filters, f)
    /\ args' = Append(args, a)
    /\ UNCHANGED call

\* True(), lines 19-21
CallTrue ==
    /\ Returned(True, [NoArgs EXCEPT !.name = "True"])
    /\ UNCHANGED slices

\* False(), lines 24-26
CallFalse ==
    /\ Returned(False, [NoArgs EXCEPT !.name = "False"])
    /\ UNCHANGED slices

\* Or(filters[is[1]], ..., filters[is[n]]), lines 30-40
CallOr(is) ==
    /\ Returned(Or([k \in DOMAIN is |-> filters[is[k]]]),
                [NoArgs EXCEPT !.name = "Or", !.filters = is])
    /\ UNCHANGED slices

\* And(filters[is[1]], ..., filters[is[n]]), lines 43-53
CallAnd(is) ==
    /\ Returned(And([k \in DOMAIN is |-> filters[is[k]]]),
                [NoArgs EXCEPT !.name = "And", !.filters = is])
    /\ UNCHANGED slices

\* Not(filters[i]), lines 56-58
CallNot(i) ==
    /\ Returned(Not(filters[i]), [NoArgs EXCEPT !.name = "Not", !.filters = <<i>>])
    /\ UNCHANGED slices

\* Whitelist(IDs...), lines 104-128
CallWhitelist(IDs) ==
    /\ Returned(Whitelist(IDs), [NoArgs EXCEPT !.name = "Whitelist", !.IDs = IDs])
    /\ UNCHANGED slices

\* Blacklist(IDs...), lines 131-134
CallBlacklist(IDs) ==
    /\ Returned(Blacklist(IDs), [NoArgs EXCEPT !.name = "Blacklist", !.IDs = IDs])
    /\ UNCHANGED slices

\* Commands(prefix, botUsername, cmds...) where cmds is the slice s the
\* caller holds, lines 138-165: the slice is normalized in place and the
\* returned closure keeps the reference.
CallCommands(prefix, botUsername, s) ==
    /\ slices' = [slices EXCEPT ![s] = NormalizeCmds(prefix, @)]
    /\ Returned(Commands(botUsername, s),
                [NoArgs EXCEPT !.name = "Commands", !.prefix = prefix,
                               !.botUsername = botUsername, !.cmds = slices[s],
                               !.slice = s])

\* Command(cmd, botUsername), line 136: Commands("/", botUsername, cmd); the
\* variadic call allocates a fresh one-element slice.
CallCommand(cmd, botUsername) ==
    /\ slices' = Append(slices, NormalizeCmds(<<"/">>, <<cmd>>))
    /\ Returned(Commands(botUsername, Len(slices) + 1),
                [NoArgs EXCEPT !.name = "Command", !.prefix = <<"/">>,
                               !.botUsername = botUsername, !.cmds = <<cmd>>,
                               !.slice = Len(slices) + 1])

\* filters[i].Check(update), line 14
CallCheck(i, update) ==
    /\ call' = [filter |-> i, update |-> update,
                result |-> Check(slices, filters[i], update),
                evaluated |-> Evaluated(slices, filters[i], update)]
    /\ UNCHANGED <<slices, filters, args>>

(***************************************************************************)
(* Inputs                                                                  *)
(***************************************************************************)
Ids == 0..MaxId

IDLists == UNION {[1..k -> Ids] : k \in 0..MaxIDs}

CmdNames == {<<"a">>, <<"A">>}

CmdLists == UNION {[1..k -> CmdNames] : k \in 0..MaxCmds}

Prefixes == {<<"/">>, <<"A">>}

BotUsernames == {<<"a">>, <<"@", "a">>, <<"@">>}

IndexLists(n) == UNION {[1..k -> 1..n] : k \in 0..MaxArity}

Froms == {<<>>} \cup {<<User(id)>> : id \in Ids}

\* updates that differ in kind and sender
SenderUpdates ==
    {MessageUpdate(<<"a">>, <<>>, from) : from \in Froms}
        \cup {CallbackUpdate(<<"a">>, id) : id \in Ids}
        \cup {InlineUpdate(<<"a">>, id) : id \in Ids}
        \cup {PollUpdate, NoUpdate}

\* updates that differ in kind and text
CmdUpdates ==
    {MessageUpdate(text, caption, <<>>) :
        text \in Str(MaxTextLen), caption \in {<<>>, <<"/", "a">>}}
        \cup {MessageUpdate(<<>>, caption, <<>>) : caption \in Str(MaxTextLen)}
        \cup {CallbackUpdate(data, 1) : data \in Str(MaxTextLen)}
        \cup {InlineUpdate(query, 1) : query \in Str(MaxTextLen)}
        \cup {PollUpdate, NoUpdate}

MainUpdates ==
    {MessageUpdate(text, <<>>, from) :
        text \in {<<"/", "a">>, <<"/", "/", "a">>},
        from \in {<<>>, <<User(1)>>}}
        \cup {CallbackUpdate(<<"/", "a">>, 1), InlineUpdate(<<"/", "a">>, 1)}

CombUpdates ==
    {MessageUpdate(<<"a">>, <<>>, <<User(1)>>), MessageUpdate(<<"a">>, <<>>, <<User(2)>>),
     InlineUpdate(<<"a">>, 1)}

(***************************************************************************)
(* Specifications                                                          *)
(***************************************************************************)
\* Spec: the whole package; the caller holds one command slice
Init ==
    /\ slices \in {<<cmds>> : cmds \in {<<<<"a">>>>, <<<<"A">>>>, <<<<"A">>, <<"a">>>>}}
    /\ filters = <<>>
    /\ args = <<>>
    /\ call = NoCall

Next ==
    \/ Len(filters) < MaxFilters /\ CallTrue
    \/ Len(filters) < MaxFilters /\ CallFalse
    \/ Len(filters) < MaxFilters /\ \E is \in IndexLists(Len(filters)) : CallOr(is)
    \/ Len(filters) < MaxFilters /\ \E is \in IndexLists(Len(filters)) : CallAnd(is)
    \/ Len(filters) < MaxFilters /\ \E i \in DOMAIN filters : CallNot(i)
    \/ Len(filters) < MaxFilters /\ CallWhitelist(<<1>>)
    \/ Len(filters) < MaxFilters /\ CallBlacklist(<<1>>)
    \/ Len(filters) < MaxFilters /\ \E prefix \in Prefixes : CallCommands(prefix, <<"a">>, 1)
    \/ Len(filters) < MaxFilters /\ \E cmd \in CmdNames : CallCommand(cmd, <<"a">>)
    \/ \E i \in DOMAIN filters, update \in MainUpdates : CallCheck(i, update)

Spec == Init /\ [][Next]_vars

\* SpecSender: one Whitelist or Blacklist, then Check calls
InitSender ==
    /\ slices = <<>>
    /\ filters = <<>>
    /\ args = <<>>
    /\ call = NoCall

NextSender ==
    \/ filters = <<>> /\ \E IDs \in IDLists : CallWhitelist(IDs)
    \/ filters = <<>> /\ \E IDs \in IDLists : CallBlacklist(IDs)
    \/ \E i \in DOMAIN filters, update \in SenderUpdates : CallCheck(i, update)

SpecSender == InitSender /\ [][NextSender]_vars

\* SpecCmd: one Commands or Command, then one Check call
InitCmd ==
    /\ slices \in {<<cmds>> : cmds \in CmdLists}
    /\ filters = <<>>
    /\ args = <<>>
    /\ call = NoCall

NextCmd ==
    \/ filters = <<>> /\ \E prefix \in Prefixes, botUsername \in BotUsernames :
                            CallCommands(prefix, botUsername, 1)
    \/ filters = <<>> /\ \E cmd \in CmdNames, botUsername \in BotUsernames :
                            CallCommand(cmd, botUsername)
    \/ call = NoCall /\ \E i \in DOMAIN filters, update \in CmdUpdates :
                            CallCheck(i, update)

SpecCmd == InitCmd /\ [][NextCmd]_vars

\* SpecComb: the combinators over sender filters and constants
NextComb ==
    \/ Len(filters) < MaxCombFilters /\ CallTrue
    \/ Len(filters) < MaxCombFilters /\ CallFalse
    \/ Len(filters) < MaxCombFilters /\ CallWhitelist(<<1>>)
    \/ Len(filters) < MaxCombFilters /\ \E is \in IndexLists(Len(filters)) : CallOr(is)
    \/ Len(filters) < MaxCombFilters /\ \E is \in IndexLists(Len(filters)) : CallAnd(is)
    \/ Len(filters) < MaxCombFilters /\ \E i \in DOMAIN filters : CallNot(i)
    \/ \E i \in DOMAIN filters, update \in CombUpdates : CallCheck(i, update)

SpecComb == InitSender /\ [][NextComb]_vars

(***************************************************************************)
(* Vocabulary of the properties                                            *)
(***************************************************************************)
Range(seq) == {seq[i] : i \in DOMAIN seq}

Checked == call.filter # 0

\* the constructor call that made the filter whose Check ran last
CallArgs == args[call.filter]

IsMessage(update) == update.Message # <<>>

IsCallback(update) == update.Message = <<>> /\ update.CallbackQuery # <<>>

\* the update carries a sender the filters can resolve
HasSender(update) ==
    \/ IsMessage(update) /\ update.Message[1].From # <<>>
    \/ IsCallback(update)

SenderId(update) ==
    IF IsMessage(update) THEN update.Message[1].From[1].Id
    ELSE update.CallbackQuery[1].From.Id

StartsWith(t, p) == Len(p) <= Len(t) /\ \A i \in 1..Len(p) : t[i] = p[i]

HasUpper(t) == \E i \in DOMAIN t : t[i] = "A"

\* a message's text, or its caption when the text is empty
MessageText(update) ==
    IF update.Message[1].Text = <<>> THEN update.Message[1].Caption
    ELSE update.Message[1].Text

\* the text any update carries (message text or caption, callback data,
\* inline query)
CarriedText(update) ==
    IF IsMessage(update) THEN MessageText(update)
    ELSE IF update.CallbackQuery # <<>> THEN update.CallbackQuery[1].Data
    ELSE IF update.InlineQuery # <<>> THEN update.InlineQuery[1].Query
    ELSE <<>>

AtBot(botUsername) ==
    IF botUsername # <<>> /\ botUsername[1] = "@" THEN botUsername ELSE <<"@">> \o botUsername

\* the matching rule of Commands(a.prefix, a.botUsername, a.cmds...) on text t
Accepts(a, t) ==
    \E k \in DOMAIN a.cmds :
        LET c == ToLower(a.prefix \o a.cmds[k])
            b == AtBot(a.botUsername)
        IN  \/ t = c
            \/ t = c \o b
            \/ StartsWith(t, c \o <<" ">>)
            \/ StartsWith(t, c \o b \o <<" ">>)

IsCommandsCall == Checked /\ CallArgs.name \in {"Commands", "Command"}

(***************************************************************************)
(* Whitelist and Blacklist (SpecSender)                                    *)
(***************************************************************************)
\* C1: Whitelist(ids...).Check is false for every update with no resolvable
\* sender (a Message without From, an InlineQuery, any other kind), whatever
\* ids is; for a Message or CallbackQuery with a sender it is true exactly
\* when the sender's ID is one of ids.
C1_WhitelistSenderRule ==
    (Checked /\ CallArgs.name = "Whitelist") =>
        /\ ~HasSender(call.update) => call.result = FALSE
        /\ HasSender(call.update) =>
               call.result = (SenderId(call.update) \in Range(CallArgs.IDs))

\* C2: Blacklist(ids...).Check is the negation of Whitelist(ids...).Check; it
\* is false when the sender's ID is in ids and true for every update with no
\* resolvable sender, whatever ids is.
C2_BlacklistSenderRule ==
    (Checked /\ CallArgs.name = "Blacklist") =>
        /\ call.result = ~Check(slices, Whitelist(CallArgs.IDs), call.update)
        /\ (HasSender(call.update) /\ SenderId(call.update) \in Range(CallArgs.IDs))
               => call.result = FALSE
        /\ ~HasSender(call.update) => call.result = TRUE

(***************************************************************************)
(* Stability of filters (Spec)                                             *)
(***************************************************************************)
\* C3: once a filter is constructed, no later operation of the package
\* (constructing filters, Commands on the same slice included, or calling
\* Check) changes what its Check returns on any update.
C3_CheckNeverChanges ==
    [][\A i \in DOMAIN filters : \A update \in MainUpdates :
           Check(slices', filters'[i], update) = Check(slices, filters[i], update)]_vars

\* C5: when Commands(prefix, botUsername, cmds...) returns, every element of
\* the caller's slice is lowercase(prefix + its old value) and the length is
\* the same; a Check call leaves every slice as it is.
C5_SliceNormalizedAtConstruction ==
    [][/\ (Len(args') = Len(args) + 1 /\ args'[Len(args')].name = "Commands") =>
              LET a == args'[Len(args')]
                  old == slices[a.slice]
                  new == slices'[a.slice]
              IN  /\ Len(new) = Len(old)
                  /\ \A i \in 1..Len(old) :
                         /\ Len(new[i]) = Len(a.prefix) + Len(old[i])
                         /\ \A j \in 1..Len(new[i]) :
                                new[i][j] = LowerChar((a.prefix \o old[i])[j])
                  /\ \A s \in DOMAIN slices : s # a.slice => slices'[s] = slices[s]
       /\ call' # call => slices' = slices]_vars

C5_Witness ==
    /\ Len(args) >= 1
    /\ args[1].name = "Commands"
    /\ args[1].prefix = <<"/">>
    /\ args[1].cmds = <<<<"A">>, <<"a">>>>
    /\ slices[1] = <<<<"/", "a">>, <<"/", "a">>>>
    /\ call.filter = 1
    /\ call.result = TRUE

(***************************************************************************)
(* Commands (SpecCmd)                                                      *)
(***************************************************************************)
\* C4: on a Message with text t (the text, or the caption when the text is
\* empty), Commands(prefix, botUsername, names...).Check is true exactly when
\* for some name, with c = lowercase(prefix+name) and b = botUsername with a
\* leading "@", t = c, t = c+b, t starts with c+" " or t starts with c+b+" ".
\* Command("a", "a") matches "/a", "/a@a", "/a ..." and not "/aa" or "a".
C4_CommandsMatchRule ==
    (IsCommandsCall /\ IsMessage(call.update)) =>
        LET t == MessageText(call.update) IN
        /\ call.result = Accepts(CallArgs, t)
        /\ (CallArgs.name = "Command" /\ CallArgs.cmds = <<<<"a">>>>
                /\ CallArgs.botUsername = <<"a">>) =>
               /\ t \in {<<"/", "a">>, <<"/", "a", "@", "a">>, <<"/", "a", " ", "a">>}
                      => call.result = TRUE
               /\ t \in {<<"/", "a", "a">>, <<"a">>} => call.result = FALSE

\* a match by the fourth rule only: c+b+" "
C4_Witness ==
    /\ IsCommandsCall
    /\ IsMessage(call.update)
    /\ call.result = TRUE
    /\ CallArgs.cmds = <<<<"A">>>>
    /\ CallArgs.prefix = <<"/">>
    /\ MessageText(call.update) = <<"/", "a", "@", " ">>

\* C8: a Commands/Command filter is false on every update that is not a
\* Message, even when the text that update carries is a configured command;
\* on a Message it tests Text, and Caption only when Text is empty.
C8_CommandsOnlyOnMessages ==
    IsCommandsCall =>
        /\ ~IsMessage(call.update) => call.result = FALSE
        /\ (IsMessage(call.update) /\ call.update.Message[1].Text # <<>>) =>
               call.result = Accepts(CallArgs, call.update.Message[1].Text)
        /\ (IsMessage(call.update) /\ call.update.Message[1].Text = <<>>) =>
               call.result = Accepts(CallArgs, call.update.Message[1].Caption)

\* a callback query whose data is the configured command
C8_Witness ==
    /\ IsCommandsCall
    /\ IsCallback(call.update)
    /\ Accepts(CallArgs, CarriedText(call.update))
    /\ call.result = FALSE

\* the part of a text before its first " " or "@"
RECURSIVE CommandPart(_)
CommandPart(t) ==
    IF t = <<>> \/ t[1] \in {" ", "@"} THEN <<>> ELSE <<t[1]>> \o CommandPart(Tail(t))

\* C10: only the configured commands are lower-cased, never the incoming
\* text: a Message whose text has an upper-case letter in its command part
\* does not match, while the lower-case form prefix+name of a configured
\* name does.
C10_IncomingTextNotLowered ==
    (IsCommandsCall /\ IsMessage(call.update)) =>
        LET t == MessageText(call.update) IN
        /\ HasUpper(CommandPart(t)) => call.result = FALSE
        /\ \A k \in DOMAIN CallArgs.cmds :
               LET written == CallArgs.prefix \o CallArgs.cmds[k] IN
               /\ (t = written /\ HasUpper(written)) => call.result = FALSE
               /\ t = ToLower(written) => call.result = TRUE

\* Command("A", ...) against the text "/A"
C10_Witness ==
    /\ IsCommandsCall
    /\ IsMessage(call.update)
    /\ CallArgs.cmds = <<<<"A">>>>
    /\ CallArgs.prefix = <<"/">>
    /\ MessageText(call.update) = <<"/", "A">>
    /\ call.result = FALSE

(***************************************************************************)
(* Combinators (SpecComb)                                                  *)
(***************************************************************************)
FirstN(n) == [k \in 1..n |-> k]

Least(S) == CHOOSE k \in S : \A m \in S : k <= m

\* the positions in fs of the filters that are false / true on update
FalseAt(fs, update) == {k \in DOMAIN fs : ~Check(slices, fs[k], update)}

TrueAt(fs, update) == {k \in DOMAIN fs : Check(slices, fs[k], update)}

IsCallOf(kind) == Checked /\ filters[call.filter].kind = kind

\* C6: And(f1..fn).Check calls the filters left to right, each at most once,
\* stops at the first that returns false, and is true exactly when every
\* filter is true; And() is true on every update.
C6_AndLeftToRight ==
    IsCallOf("And") =>
        LET fs == filters[call.filter].filters
            falses == FalseAt(fs, call.update)
        IN  /\ call.evaluated =
                   FirstN(IF falses = {} THEN Len(fs) ELSE Least(falses))
            /\ call.result = (falses = {})
            /\ fs = <<>> => call.result = TRUE

\* the first filter is false, the second is true and is never called
C6_Witness ==
    /\ IsCallOf("And")
    /\ Len(filters[call.filter].filters) = 2
    /\ FalseAt(filters[call.filter].filters, call.update) = {1}
    /\ call.evaluated = <<1>>
    /\ call.result = FALSE

\* C7: Or(f1..fn).Check calls the filters left to right, each at most once,
\* stops at the first that returns true, and is false exactly when every
\* filter is false; Or() is false on every update.
C7_OrLeftToRight ==
    IsCallOf("Or") =>
        LET fs == filters[call.filter].filters
            trues == TrueAt(fs, call.update)
        IN  /\ call.evaluated =
                   FirstN(IF trues = {} THEN Len(fs) ELSE Least(trues))
            /\ call.result = (trues # {})
            /\ fs = <<>> => call.result = FALSE

\* the first filter is true, the second is false and is never called
C7_Witness ==
    /\ IsCallOf("Or")
    /\ Len(filters[call.filter].filters) = 2
    /\ TrueAt(filters[call.filter].filters, call.update) = {1}
    /\ call.evaluated = <<1>>
    /\ call.result = TRUE

\* C9: And(f1, f2).Check(u) is the negation of Or(Not(f1), Not(f2)).Check(u)
\* for all filters f1, f2 and every update u, and Not(f).Check(u) is the
\* negation of f.Check(u), obtained with one call of f.
C9_DeMorgan ==
    /\ \A i, j \in DOMAIN filters : \A update \in CombUpdates :
           Check(slices, And(<<filters[i], filters[j]>>), update)
               = ~Check(slices, Or(<<Not(filters[i]), Not(filters[j])>>), update)
    /\ (IsCallOf("And") /\ Len(filters[call.filter].filters) = 2) =>
           LET fs == filters[call.filter].filters
           IN  call.result = ~Check(slices, Or(<<Not(fs[1]), Not(fs[2])>>), call.update)
    /\ IsCallOf("Not") =>
           /\ call.result = ~Check(slices, filters[call.filter].filter, call.update)
           /\ call.evaluated = <<1>>

\* And(Not(f), g) called on an update that f rejects and g accepts
C9_Witness ==
    /\ IsCallOf("And")
    /\ Len(filters[call.filter].filters) = 2
    /\ filters[call.filter].filters[1].kind = "Not"
    /\ call.result = TRUE

====
